---- MODULE Spec2Model ----
(***************************************************************************)
(* Hackbright Project Tracker (src/hackbright.py): a command loop over a   *)
(* relational store with three tables, students, projects and grades.      *)
(*                                                                         *)
(* A Python string is a sequence of one-character strings, so that         *)
(* ' '.join and int() are computed and not assumed.  A line read at the    *)
(* prompt is given by its tokens, the result of input_string.split().  A   *)
(* printed line is a TLA+ string built from those characters.              *)
(***************************************************************************)
EXTENDS Integers, Sequences, FiniteSets, TLC

VARIABLES
    students,   \* table students: rows [first_name, last_name, github], in insertion order
    projects,   \* table projects: rows [title, description, max_grade]
    grades,     \* table grades: rows [student_github, project_title, grade]
    scanOrder,  \* the order in which the store returns the rows of a SELECT without ORDER BY
    pc,         \* "awaiting" (the prompt), "done" (after quit) or "crashed" (unhandled exception)
    exc,        \* the exception that ended the process, "" when none
    cmd,        \* the tokens of the last line read by handle_input
    out,        \* the lines printed while handling that line
    commits     \* the number of db.session.commit() calls so far

db == <<students, projects, grades>>
vars == <<students, projects, grades, scanOrder, pc, exc, cmd, out, commits>>

\* The number of INSERT commits a run of the model makes at most.
MaxCommits == 1

-----------------------------------------------------------------------------
(* Strings *)

RECURSIVE Str(_)
\* The text of a character sequence.
Str(s) == IF s = <<>> THEN "" ELSE Head(s) \o Str(Tail(s))

RECURSIVE Flatten(_)
Flatten(ss) == IF ss = <<>> THEN <<>> ELSE Head(ss) \o Flatten(Tail(ss))

Reverse(s) == [i \in 1..Len(s) |-> s[Len(s) + 1 - i]]

RECURSIVE join(_, _)
\* sep.join(words)
join(sep, words) ==
    IF words = <<>> THEN <<>>
    ELSE IF Len(words) = 1 THEN Head(words)
    ELSE Head(words) \o sep \o join(sep, Tail(words))

DigitChars == <<"0", "1", "2", "3", "4", "5", "6", "7", "8", "9">>

DigitValue(c) == (CHOOSE i \in 1..Len(DigitChars) : DigitChars[i] = c) - 1

IsDigit(c) == \E i \in 1..Len(DigitChars) : DigitChars[i] = c

\* Whether int(s) accepts s: an optional sign, then digits, single underscores
\* allowed between digits.
is_int_literal(s) ==
    LET body == IF s # <<>> /\ Head(s) \in {"+", "-"} THEN Tail(s) ELSE s
    IN  /\ body # <<>>
        /\ \A i \in 1..Len(body) : IsDigit(body[i]) \/ body[i] = "_"
        /\ IsDigit(body[1]) /\ IsDigit(body[Len(body)])
        /\ \A i \in 1..(Len(body) - 1) : ~(body[i] = "_" /\ body[i + 1] = "_")

RECURSIVE digits_value(_, _)
digits_value(acc, body) ==
    IF body = <<>> THEN acc
    ELSE IF Head(body) = "_" THEN digits_value(acc, Tail(body))
    ELSE digits_value(10 * acc + DigitValue(Head(body)), Tail(body))

\* int(s) for a string int() accepts.
int(s) ==
    LET neg  == Head(s) = "-"
        body == IF Head(s) \in {"+", "-"} THEN Tail(s) ELSE s
        v    == digits_value(0, body)
    IN  IF neg THEN 0 - v ELSE v

RECURSIVE nat_str(_)
nat_str(n) ==
    IF n < 10 THEN DigitChars[n + 1]
    ELSE nat_str(n \div 10) \o DigitChars[(n % 10) + 1]

\* str(n) of an integer, as an f-string formats it.
int_str(n) == IF n < 0 THEN "-" \o nat_str(0 - n) ELSE nat_str(n)

-----------------------------------------------------------------------------
(* The store *)

None == [none |-> TRUE]

\* The rows of a result set in the order the store hands them out.
execute(rows) == IF scanOrder = "heap" THEN rows ELSE Reverse(rows)

fetchone(cursor) == IF cursor = <<>> THEN None ELSE Head(cursor)

\* grades JOIN students ON (grades.student_github = students.github)
grades_join_students ==
    Flatten([i \in 1..Len(grades) |->
        LET g  == grades[i]
            ss == SelectSeq(students, LAMBDA s : s.github = g.student_github)
        IN  [j \in 1..Len(ss) |->
                [first_name |-> ss[j].first_name, last_name |-> ss[j].last_name,
                 github |-> ss[j].github, student_github |-> g.student_github,
                 project_title |-> g.project_title, grade |-> g.grade]]])

\* ... JOIN projects ON (grades.project_title = projects.title)
grades_join_students_projects ==
    LET gs == grades_join_students
    IN  Flatten([i \in 1..Len(gs) |->
            LET ps == SelectSeq(projects, LAMBDA p : p.title = gs[i].project_title)
            IN  [j \in 1..Len(ps) |->
                    [first_name |-> gs[i].first_name, last_name |-> gs[i].last_name,
                     student_github |-> gs[i].student_github,
                     project_title |-> gs[i].project_title, grade |-> gs[i].grade,
                     max_grade |-> ps[j].max_grade]]])

is_invalid_student(github) ==
    fetchone(execute(SelectSeq(students, LAMBDA s : s.github = github))) = None

is_invalid_project_title(title) ==
    fetchone(execute(SelectSeq(projects, LAMBDA p : p.title = title))) = None

\* A variant that accepts extra arguments.
is_valid_number_of_args_at_least(args, num) == Len(args) >= num

is_valid_number_of_args(args, num) == Len(args) = num

-----------------------------------------------------------------------------
(* What a call leaves behind *)

\* The call printed `lines`, changed no table and returned.
Printed(lines) ==
    /\ out' = lines
    /\ pc' = "awaiting"
    /\ exc' = ""
    /\ UNCHANGED <<students, projects, grades, commits>>

\* The call raised `e`, which nothing catches: the process ends.
Raised(e) ==
    /\ out' = <<>>
    /\ pc' = "crashed"
    /\ exc' = e
    /\ UNCHANGED <<students, projects, grades, commits>>

-----------------------------------------------------------------------------
(* The operations *)

\* A variant with the return after the invalid-student message left out: the
\* code goes on to index the absent row.
get_student_by_github_no_return(github) ==
    LET db_cursor == execute(SelectSeq(students, LAMBDA s : s.github = github))
    IN  IF is_invalid_student(github)
        THEN /\ out' = <<"Invalid student, please try again">>
             /\ pc' = "crashed"
             /\ exc' = "TypeError"
             /\ UNCHANGED <<students, projects, grades, commits>>
        ELSE LET row == fetchone(db_cursor)
             IN  Printed(<<"Student: " \o Str(row.first_name) \o " " \o Str(row.last_name),
                           "GitHub account: " \o Str(row.github)>>)

\* A variant that creates the student it does not find (get-or-create).
get_student_by_github_or_create(github) ==
    LET db_cursor == execute(SelectSeq(students, LAMBDA s : s.github = github))
    IN  IF is_invalid_student(github)
        THEN /\ students' = Append(students,
                    [first_name |-> <<>>, last_name |-> <<>>, github |-> github])
             /\ out' = <<"Invalid student, please try again">>
             /\ pc' = "awaiting"
             /\ exc' = ""
             /\ UNCHANGED <<projects, grades, commits>>
        ELSE LET row == fetchone(db_cursor)
             IN  Printed(<<"Student: " \o Str(row.first_name) \o " " \o Str(row.last_name),
                           "GitHub account: " \o Str(row.github)>>)

get_student_by_github(github) ==
    LET db_cursor == execute(SelectSeq(students, LAMBDA s : s.github = github))
    IN  IF is_invalid_student(github)
        THEN Printed(<<"Invalid student, please try again">>)
        ELSE LET row == fetchone(db_cursor)
             IN  Printed(<<"Student: " \o Str(row.first_name) \o " " \o Str(row.last_name),
                           "GitHub account: " \o Str(row.github)>>)

make_new_student(first_name, last_name, github) ==
    /\ commits < MaxCommits
    /\ students' = Append(students,
            [first_name |-> first_name, last_name |-> last_name, github |-> github])
    /\ commits' = commits + 1
    /\ out' = <<"Successfully added student:" \o Str(first_name) \o " " \o Str(last_name)>>
    /\ pc' = "awaiting"
    /\ exc' = ""
    /\ UNCHANGED <<projects, grades>>

get_project_by_title(title) ==
    IF is_invalid_project_title(title)
    THEN Printed(<<"Invalid project title, please try again">>)
    ELSE LET db_cursor == execute(SelectSeq(projects, LAMBDA p : p.title = title))
             row == fetchone(db_cursor)
         IN  Printed(<<"Project: " \o Str(title),
                       "Description: " \o Str(row.description),
                       "Max grade: " \o int_str(row.max_grade)>>)

\* A variant whose WHERE clause leaves out "AND project_title = :title".
get_grade_by_github_title_any_project(github, title) ==
    IF is_invalid_student(github)
    THEN Printed(<<"Invalid student, please try again">>)
    ELSE IF is_invalid_project_title(title)
    THEN Printed(<<"Invalid project title, please try again">>)
    ELSE LET db_cursor == execute(SelectSeq(grades_join_students,
                              LAMBDA r : r.github = github))
             row == fetchone(db_cursor)
         IN  IF row = None
             THEN Raised("TypeError")
             ELSE Printed(<<"Student: " \o Str(row.first_name) \o " " \o Str(row.last_name),
                            "Project: " \o Str(title),
                            "Grade: " \o Str(row.grade)>>)

get_grade_by_github_title(github, title) ==
    IF is_invalid_student(github)
    THEN Printed(<<"Invalid student, please try again">>)
    ELSE IF is_invalid_project_title(title)
    THEN Printed(<<"Invalid project title, please try again">>)
    ELSE LET db_cursor == execute(SelectSeq(grades_join_students,
                              LAMBDA r : r.github = github /\ r.project_title = title))
             row == fetchone(db_cursor)
         IN  IF row = None
             THEN Raised("TypeError")
             ELSE Printed(<<"Student: " \o Str(row.first_name) \o " " \o Str(row.last_name),
                            "Project: " \o Str(title),
                            "Grade: " \o Str(row.grade)>>)

assign_grade(github, title, grade) ==
    /\ commits < MaxCommits
    /\ grades' = Append(grades,
            [student_github |-> github, project_title |-> title, grade |-> grade])
    /\ commits' = commits + 1
    /\ out' = <<"Successfully added a grade of " \o Str(grade) \o " for " \o Str(github)
                    \o "'s " \o Str(title) \o " project">>
    /\ pc' = "awaiting"
    /\ exc' = ""
    /\ UNCHANGED <<students, projects>>

\* A variant that updates the stored project of that title when there is one.
add_project_replace(title, description, max_grade) ==
    /\ commits < MaxCommits
    /\ projects' =
        IF \E i \in 1..Len(projects) : projects[i].title = title
        THEN [i \in 1..Len(projects) |->
                IF projects[i].title = title
                THEN [title |-> title, description |-> description, max_grade |-> max_grade]
                ELSE projects[i]]
        ELSE Append(projects,
                [title |-> title, description |-> description, max_grade |-> max_grade])
    /\ commits' = commits + 1
    /\ out' = <<"Successfully added " \o Str(title) \o " to the projects database">>
    /\ pc' = "awaiting"
    /\ exc' = ""
    /\ UNCHANGED <<students, grades>>

add_project(title, description, max_grade) ==
    /\ commits < MaxCommits
    /\ projects' = Append(projects,
            [title |-> title, description |-> description, max_grade |-> max_grade])
    /\ commits' = commits + 1
    /\ out' = <<"Successfully added " \o Str(title) \o " to the projects database">>
    /\ pc' = "awaiting"
    /\ exc' = ""
    /\ UNCHANGED <<students, grades>>

\* One printed line per row left in the cursor.
grade_lines(rows) ==
    [i \in 1..Len(rows) |->
        Str(rows[i].project_title) \o " Project: " \o Str(rows[i].grade) \o "/"
            \o int_str(rows[i].max_grade)]

get_all_grades(github) ==
    IF is_invalid_student(github)
    THEN Printed(<<"Invalid student, please try again">>)
    ELSE LET db_cursor == execute(SelectSeq(grades_join_students_projects,
                              LAMBDA r : r.student_github = github))
             row == fetchone(db_cursor)
         IN  IF row = None
             THEN Raised("TypeError")
             ELSE Printed(<<"All grades for " \o Str(row.first_name) \o " "
                                \o Str(row.last_name)>>
                          \o grade_lines(db_cursor))

-----------------------------------------------------------------------------
(* The command loop *)

\* The command names, as Python strings.
c_student        == <<"s", "t", "u", "d", "e", "n", "t">>
c_new_student    == <<"n", "e", "w", "_">> \o c_student
c_project_info   == <<"p", "r", "o", "j", "e", "c", "t", "_", "i", "n", "f", "o">>
c_get_grade      == <<"g", "e", "t", "_", "g", "r", "a", "d", "e">>
c_assign_grade   == <<"a", "s", "s", "i", "g", "n", "_", "g", "r", "a", "d", "e">>
c_add_project    == <<"a", "d", "d", "_", "p", "r", "o", "j", "e", "c", "t">>
c_get_all_grades == <<"g", "e", "t", "_", "a", "l", "l", "_", "g", "r", "a", "d", "e", "s">>
c_quit           == <<"q", "u", "i", "t">>
c_other          == <<"h", "e", "l", "p">>

\* One pass of the loop of handle_input over the line whose split() is `tokens`.
handle_input(tokens) ==
    /\ cmd' = tokens
    /\ UNCHANGED scanOrder
    /\ IF tokens = <<>>
       THEN Raised("IndexError")
       ELSE LET command == tokens[1]
                args    == Tail(tokens)
            IN  IF command = c_student
                THEN IF is_valid_number_of_args(args, 1)
                     THEN get_student_by_github(args[1])
                     ELSE Printed(<<"The 'students' command takes exactly one argument. Please try again.">>)
                ELSE IF command = c_new_student
                THEN IF Len(args) # 3
                     THEN Raised("ValueError")
                     ELSE make_new_student(args[1], args[2], args[3])
                ELSE IF command = c_project_info
                THEN IF is_valid_number_of_args(args, 1)
                     THEN get_project_by_title(args[1])
                     ELSE Printed(<<"The 'project_info' command takes exactly one argument. Please try again.">>)
                ELSE IF command = c_get_grade
                THEN IF is_valid_number_of_args(args, 2)
                     THEN get_grade_by_github_title(args[1], args[2])
                     ELSE Printed(<<"The 'get_grade' command takes exactly two arguments. Please try again.">>)
                ELSE IF command = c_assign_grade
                THEN IF is_valid_number_of_args(args, 3)
                     THEN assign_grade(args[1], args[2], args[3])
                     ELSE Printed(<<"The 'assign_grade' command takes exactly three arguments. Please try again.">>)
                ELSE IF command = c_add_project
                THEN IF Len(args) < 2
                     THEN Raised("ValueError")
                     ELSE LET title            == args[1]
                              description_list == SubSeq(args, 2, Len(args) - 1)
                              max_grade_str    == args[Len(args)]
                          IN  IF ~is_int_literal(max_grade_str)
                              THEN Raised("ValueError")
                              ELSE add_project(title, join(<<" ">>, description_list),
                                               int(max_grade_str))
                ELSE IF command = c_get_all_grades
                THEN IF is_valid_number_of_args(args, 1)
                     THEN get_all_grades(args[1])
                     ELSE Printed(<<"The 'get_all_grades' command takes exactly one argument. Please try again.">>)
                ELSE IF command # c_quit
                THEN Printed(<<"Invalid Entry. Try again.">>)
                ELSE /\ out' = <<>>
                     /\ pc' = "done"
                     /\ exc' = ""
                     /\ UNCHANGED <<students, projects, grades, commits>>

-----------------------------------------------------------------------------
(* The lines the model types at the prompt *)

Githubs    == {<<"j", "h">>, <<"s", "d">>}
Names      == {<<<<"J">>, <<"H">>>>, <<<<"S">>, <<"D">>>>}
Titles     == {<<"M">>, <<"B", "J">>}
GradeStrs  == {<<"1", "0">>, <<"2">>}
\* What follows the title of an add_project line: description words, then max_grade.
ProjectTails == {<<<<"1", "0">>>>,
                 <<<<"a">>, <<"-", "5">>>>,
                 <<<<"a">>, <<"b", "c">>, <<"0", "0", "7">>>>,
                 <<<<"a">>, <<"1", "x">>>>}

WrongCount == {<<>>, <<<<"j", "h">>, <<"M">>, <<"2">>, <<"x">>>>}

StudentLines      == {<<c_student>> \o a : a \in {<<g>> : g \in Githubs} \cup WrongCount}
NewStudentLines   == {<<c_new_student>> \o a :
                        a \in {<<n[1], n[2], g>> : n \in Names, g \in Githubs} \cup WrongCount}
ProjectInfoLines  == {<<c_project_info>> \o a : a \in {<<t>> : t \in Titles} \cup WrongCount}
GetGradeLines     == {<<c_get_grade>> \o a :
                        a \in {<<g, t>> : g \in Githubs, t \in Titles} \cup WrongCount}
AssignGradeLines  == {<<c_assign_grade>> \o a :
                        a \in {<<g, t, v>> : g \in Githubs, t \in Titles, v \in GradeStrs}
                              \cup WrongCount}
AddProjectLines   == {<<c_add_project>> \o a :
                        a \in {<<t>> \o tl : t \in Titles, tl \in ProjectTails}
                              \cup {<<>>, <<<<"M">>>>}}
GetAllGradesLines == {<<c_get_all_grades>> \o a : a \in {<<g>> : g \in Githubs} \cup WrongCount}
OtherLines        == {<<c_other>>, <<c_other, <<"M">>>>, <<c_quit>>, <<c_quit, <<"M">>>>, <<>>}

-----------------------------------------------------------------------------
(* The specification *)

\* The rows the store may hold when the program starts.
SeedStudent == [first_name |-> <<"J">>, last_name |-> <<"H">>, github |-> <<"j", "h">>]
SeedProject == [title |-> <<"M">>, description |-> <<"t", "w", "e", "e", "t", "s">>, max_grade |-> 50]
SeedGrade   == [student_github |-> <<"j", "h">>, project_title |-> <<"M">>, grade |-> <<"1", "0">>]

Init ==
    /\ \/ students = <<>> /\ projects = <<>> /\ grades = <<>>
       \/ students = <<SeedStudent>> /\ projects = <<SeedProject>> /\ grades = <<>>
       \/ students = <<SeedStudent>> /\ projects = <<SeedProject>> /\ grades = <<SeedGrade>>
    /\ scanOrder \in {"heap", "reverse"}
    /\ pc = "awaiting"
    /\ exc = ""
    /\ cmd = <<>>
    /\ out = <<>>
    /\ commits = 0

\* One action per command of the loop: while the loop runs (no quit yet, no
\* exception), a line is read and handled.
Student      == pc = "awaiting" /\ \E tokens \in StudentLines      : handle_input(tokens)
NewStudent   == pc = "awaiting" /\ \E tokens \in NewStudentLines   : handle_input(tokens)
ProjectInfo  == pc = "awaiting" /\ \E tokens \in ProjectInfoLines  : handle_input(tokens)
GetGrade     == pc = "awaiting" /\ \E tokens \in GetGradeLines     : handle_input(tokens)
AssignGrade  == pc = "awaiting" /\ \E tokens \in AssignGradeLines  : handle_input(tokens)
AddProject   == pc = "awaiting" /\ \E tokens \in AddProjectLines   : handle_input(tokens)
GetAllGrades == pc = "awaiting" /\ \E tokens \in GetAllGradesLines : handle_input(tokens)
Other        == pc = "awaiting" /\ \E tokens \in OtherLines        : handle_input(tokens)

Next ==
    \/ Student
    \/ NewStudent
    \/ ProjectInfo
    \/ GetGrade
    \/ AssignGrade
    \/ AddProject
    \/ GetAllGrades
    \/ Other

Spec == Init /\ [][Next]_vars

-----------------------------------------------------------------------------
(* Properties *)

StudentExists(g) == \E i \in 1..Len(students) : students[i].github = g
ProjectExists(t) == \E i \in 1..Len(projects) : projects[i].title = t

\* The grade values stored for the pair (g, t).
PairGrades(g, t) ==
    {grades[i].grade : i \in {k \in 1..Len(grades) :
        grades[k].student_github = g /\ grades[k].project_title = t}}

\* The rows get_all_grades(g) has to print: grade rows of g whose project is stored.
HasListedGrade(g) ==
    \E i \in 1..Len(grades) :
        grades[i].student_github = g /\ ProjectExists(grades[i].project_title)

IsPrefix(s, t) == Len(s) <= Len(t) /\ \A i \in 1..Len(s) : s[i] = t[i]

InvalidStudentMsg == "Invalid student, please try again"
InvalidProjectMsg == "Invalid project title, please try again"

\* C1: whenever get_grade was given a stored student and a stored project with at
\* least one grade row for the pair, it returned to the prompt having printed the
\* project title and, as the grade, the grade value of a stored row of that pair
\* (the stored value itself when the rows of the pair agree).
C1_PrintsStoredGrade ==
    \A g \in Githubs, t \in Titles :
        (/\ cmd = <<c_get_grade, g, t>>
         /\ StudentExists(g) /\ ProjectExists(t) /\ PairGrades(g, t) # {})
        => /\ pc = "awaiting" /\ exc = ""
           /\ Len(out) = 3
           /\ out[2] = "Project: " \o Str(t)
           /\ \E v \in PairGrades(g, t) : out[3] = "Grade: " \o Str(v)

\* C1 witness: get_grade answered for a pair that holds two grade rows with
\* different values (a grade assigned twice).
C1_Witness ==
    \E g \in Githubs, t \in Titles :
        /\ cmd = <<c_get_grade, g, t>>
        /\ pc = "awaiting"
        /\ Cardinality(PairGrades(g, t)) = 2
        /\ Len(out) = 3

\* C2: get_all_grades for a stored student with no grade row to list does not
\* fault: the loop is back at the prompt.
C2_NoFaultWithoutGrades ==
    \A g \in Githubs :
        (cmd = <<c_get_all_grades, g>> /\ StudentExists(g) /\ ~HasListedGrade(g))
        => pc = "awaiting" /\ exc = ""

\* C3: every grade row names a stored student and a stored project.
C3_NoOrphanedGrade ==
    \A i \in 1..Len(grades) :
        StudentExists(grades[i].student_github) /\ ProjectExists(grades[i].project_title)

\* C4: new_student f l g followed at once by student g prints f, l and g.
C4_RoundTrip ==
    [][\A n \in Names, g \in Githubs :
        (/\ cmd = <<c_new_student, n[1], n[2], g>>
         /\ pc = "awaiting"
         /\ cmd' = <<c_student, g>>)
        => out' = <<"Student: " \o Str(n[1]) \o " " \o Str(n[2]),
                    "GitHub account: " \o Str(g)>>]_vars

\* What an add_project line is to store, by what follows its title:
\* description and max grade as project_info prints them.
ExpectedProject(tail) ==
    CASE tail = <<<<"1", "0">>>>                              -> <<"", "10">>
      [] tail = <<<<"a">>, <<"-", "5">>>>                     -> <<"a", "-5">>
      [] tail = <<<<"a">>, <<"b", "c">>, <<"0", "0", "7">>>>  -> <<"a bc", "7">>

IntegerTails == {tl \in ProjectTails : tl[Len(tl)] # <<"1", "x">>}

\* C5: add_project T w1 .. wn M stores title T, the words joined by single
\* spaces and the integer M as the newest project row, and project_info T right
\* after it prints that description and that max grade.
C5_AddProjectThenInfo ==
    [][\A t \in Titles, tl \in IntegerTails :
        /\ (pc = "awaiting" /\ cmd' = <<c_add_project, t>> \o tl)
            => /\ pc' = "awaiting"
               /\ Len(projects') = Len(projects) + 1
               /\ projects'[Len(projects')].title = t
               /\ Str(projects'[Len(projects')].description) = ExpectedProject(tl)[1]
               /\ int_str(projects'[Len(projects')].max_grade) = ExpectedProject(tl)[2]
        /\ (/\ cmd = <<c_add_project, t>> \o tl
            /\ pc = "awaiting"
            /\ cmd' = <<c_project_info, t>>)
            => out' = <<"Project: " \o Str(t),
                        "Description: " \o ExpectedProject(tl)[1],
                        "Max grade: " \o ExpectedProject(tl)[2]>>]_vars

\* C6: student g for a github that is not stored prints the invalid-student
\* message and nothing else, changes no table and returns to the prompt.
C6_UnknownStudent ==
    [][\A g \in Githubs :
        (pc = "awaiting" /\ ~StudentExists(g) /\ cmd' = <<c_student, g>>)
        => /\ out' = <<InvalidStudentMsg>>
           /\ <<students, projects, grades>>' = <<students, projects, grades>>
           /\ pc' = "awaiting" /\ exc' = ""]_vars

\* C6 witness: the invalid-student message was printed for a github that is
\* not stored.
C6_Witness ==
    \E g \in Githubs :
        /\ cmd = <<c_student, g>>
        /\ ~StudentExists(g)
        /\ out = <<InvalidStudentMsg>>
        /\ pc = "awaiting"

\* The lines that call a lookup operation.
LookupLines ==
    {<<c_student, g>> : g \in Githubs} \cup {<<c_project_info, t>> : t \in Titles}
    \cup {<<c_get_grade, g, t>> : g \in Githubs, t \in Titles}
    \cup {<<c_get_all_grades, g>> : g \in Githubs}

\* C7: a lookup changes no table, and a lookup repeated right after itself prints
\* what it printed the first time.
C7_LookupIdempotent ==
    [][(pc = "awaiting" /\ cmd' \in LookupLines)
        => /\ <<students, projects, grades>>' = <<students, projects, grades>>
           /\ (cmd = cmd' => out' = out /\ pc' = "awaiting")]_vars

\* C7 witness: a lookup has found its record, printed it and returned to the
\* prompt, where the same line can be read again.
C7_Witness ==
    /\ cmd \in LookupLines
    /\ pc = "awaiting"
    /\ Len(out) >= 2

\* The commands that check their argument count, with the count they take.
CheckedCount(command) ==
    CASE command = c_student        -> 1
      [] command = c_project_info   -> 1
      [] command = c_get_grade      -> 2
      [] command = c_assign_grade   -> 3
      [] command = c_get_all_grades -> 1
      [] OTHER                      -> -1

KnownCommands ==
    {c_student, c_new_student, c_project_info, c_get_grade, c_assign_grade,
     c_add_project, c_get_all_grades, c_quit}

\* A line that is a recoverable error: an unknown command name, or a wrong
\* number of arguments for a command that checks it.
RecoverableError(tokens) ==
    /\ tokens # <<>>
    /\ \/ tokens[1] \notin KnownCommands
       \/ CheckedCount(tokens[1]) >= 0 /\ Len(tokens) - 1 # CheckedCount(tokens[1])

C9_ThreeOutcomes ==
    \A g \in Githubs, t \in Titles :
        cmd = <<c_get_grade, g, t>>
        => /\ pc = "awaiting" /\ exc = ""
           /\ IF ~StudentExists(g) THEN out = <<InvalidStudentMsg>>
              ELSE IF ~ProjectExists(t) THEN out = <<InvalidProjectMsg>>
              ELSE Len(out) = 3 /\ out[2] = "Project: " \o Str(t)

\* C10: every step keeps every stored row where it is, and a new_student,
\* add_project or assign_grade that succeeds appends one row to its own table and
\* leaves the other two tables as they were.
C10_AppendOnly ==
    [][/\ IsPrefix(students, students')
       /\ IsPrefix(projects, projects')
       /\ IsPrefix(grades, grades')
       /\ (pc = "awaiting" /\ pc' = "awaiting" /\ cmd' \in NewStudentLines)
            => /\ Len(students') = Len(students) + 1
               /\ projects' = projects /\ grades' = grades
       /\ (pc = "awaiting" /\ pc' = "awaiting" /\ cmd' \in AddProjectLines)
            => /\ Len(projects') = Len(projects) + 1
               /\ students' = students /\ grades' = grades
       /\ (pc = "awaiting" /\ pc' = "awaiting" /\ cmd' \in AssignGradeLines
                /\ Len(cmd') = 4)
            => /\ Len(grades') = Len(grades) + 1
               /\ students' = students /\ projects' = projects]_vars

\* C10 witness: add_project has added a second project of a title that was
\* already stored, and both rows are there.
C10_Witness ==
    /\ cmd \in AddProjectLines
    /\ pc = "awaiting"
    /\ Len(projects) = 2
    /\ projects[1].title = projects[2].title
    /\ projects[1] = SeedProject

====
